---------------------------- MODULE Spec2Model ----------------------------
(***************************************************************************)
(* A model of the two tools of the repository:                             *)
(*   tools/formatting/git-clang-format.py  (the format applicator)         *)
(*   tools/tests/utils.py                  (the query-config helpers)      *)
(*                                                                         *)
(* Text is modelled as tuples of one-character strings, so that splitting, *)
(* prefix tests and lower-casing are computed and not assumed.             *)
(***************************************************************************)
EXTENDS Integers, Sequences, FiniteSets, TLC

VARIABLES
  \* ---- extract_lines (git-clang-format.py) ----
  patch_file,      \* the lines of the diff still to be read, as a sequence
  line_no,         \* number of lines of patch_file consumed by the for loop
  matches,         \* dict: filename -> list of Range
  filename,        \* the loop's `filename` local (Unbound before a +++ line)
  extract_status,  \* "idle" | "running" | "returned" | "NameError"
  \* ---- filter_by_extension (git-clang-format.py) ----
  dictionary,      \* the dict handed to filter_by_extension (mutated in place)
  original,        \* the dict as it was before the call
  allowed_extensions,
  filter_status,   \* "idle" | "ready" | "returned"
  \* ---- queries_from_config (utils.py) ----
  config_file,     \* what is at config_path: missing, not JSON, or a document
  queries,         \* the `queries` dict of queries_from_config
  config_status,   \* "idle" | "ready" | "returned" | "exited"
  config_exit,     \* the status handed to exit(), NoExit while running
  \* ---- queries_from_tables (utils.py) ----
  fs,              \* the files os.walk(path) meets: [dir, name] records
  sys_platform,    \* sys.platform
  restrict,        \* the `restrict` argument
  table_queries,   \* the dict queries_from_tables returns
  tables_status,   \* "idle" | "ready" | "returned"
  \* ---- a run of git-clang-format: main() ----
  pc,              \* the statement of main() (or of its callee) to run next
  args,            \* opts.args: the positional tokens left of `--`
  dash_dash,       \* `--` and what follows it, <<>> without a `--`
  opts,            \* [commit, diff, force, patch, style, verbose]
  commit, files,   \* what interpret_args returned
  diff_stdout,     \* the lines `git diff-index -p -U0` printed in this run
  changed_lines,   \* dict: filename -> list of Range
  old_tree, new_tree,
  todo,            \* files index_info_generator has not yielded yet
  index_info,      \* the `<mode> <blob>\t<filename>` lines yielded so far
  invocations,     \* the clang-format command lines started, in time order
  changed_files,   \* apply_changes: output of `git diff-tree --name-only`
  site,            \* which `with temporary_index_file(...)` is open or next
  pending,         \* the exception travelling out of the with block
  git_index_file,  \* os.environ.get('GIT_INDEX_FILE')
  initial_index_file, \* GIT_INDEX_FILE as the process found it (never changes)
  old_index_path,  \* the local of temporary_index_file
  temp_index,      \* the temporary index file: NoFile, or the entries in it
  workdir,         \* working tree: filename -> content
  unstaged,        \* files whose working-tree content differs from the index
  written,         \* working-tree files written by the run
  called,          \* which of print_diff / apply_changes were entered
  stdout, stderr,  \* what was printed
  exit_status,     \* NoExit while running, then the status of the process
  fatal            \* the fatal condition that ended the run, "none" if none

extractVars == <<patch_file, line_no, matches, filename, extract_status>>
filterVars  == <<dictionary, original, allowed_extensions, filter_status>>
configVars  == <<config_file, queries, config_status, config_exit>>
tablesVars  == <<fs, sys_platform, restrict, table_queries, tables_status>>
inputVars   == <<args, dash_dash, opts, unstaged, initial_index_file>>
treeVars    == <<changed_lines, old_tree, new_tree, todo, index_info, changed_files>>
scopeVars   == <<site, pending, git_index_file, old_index_path, temp_index>>
worktreeVars == <<workdir, written>>
traceVars   == <<diff_stdout, invocations>>
endVars     == <<pc, stderr, exit_status, fatal>>
runVars     == <<inputVars, commit, files, treeVars, scopeVars, worktreeVars,
                 traceVars, called, stdout, endVars>>
nonRunVars  == <<extractVars, filterVars, configVars, tablesVars>>
vars == <<nonRunVars, runVars>>

(***************************************************************************)
(* General helpers                                                         *)
(***************************************************************************)
EmptyDict == <<>>

\* d with key k bound to v (dict item assignment)
DictSet(d, k, v) == [x \in (DOMAIN d) \cup {k} |-> IF x = k THEN v ELSE d[x]]

\* d without the keys in ks (del d[k])
DictDel(d, ks) == [x \in (DOMAIN d) \ ks |-> d[x]]

\* the sequences over S of length at most n
SeqsUpTo(S, n) == UNION {[1..k -> S] : k \in 0..n}

\* the sets of at most two elements of S
AtMostPairs(S) == {{}} \cup {{x, y} : x \in S, y \in S}

(***************************************************************************)
(* extract_lines                                                           *)
(***************************************************************************)
MaxLines == 3

\* `filename` before its first assignment (no path of the model is this tuple)
Unbound == <<"<unbound>">>
\* match.group(3) is None: the optional `,<count>` group did not take part
NoGroup == <<>>

\* int() of a non-empty string of decimal digits
RECURSIVE ToInt(_)
ToInt(digits) ==
  IF digits = <<>> THEN 0
  ELSE 10 * ToInt(SubSeq(digits, 1, Len(digits) - 1)) + digits[Len(digits)]

Range(start, count) == [start |-> start, count |-> count]

\* re.search(r'^\+\+\+\ [^/]+/(.*)', line): the line is `+++ <prefix>/<path>`
\* and the prefix before the first slash is not empty (`+++ /dev/null` has an
\* empty one and does not match).
MatchesFileHeader(line) == line.kind = "+++" /\ line.prefix # ""

\* re.search(r'^@@ -[0-9,]+ \+(\d+)(,(\d+))?', line)
MatchesHunkHeader(line) == line.kind = "@@"

\* One iteration of the for loop of extract_lines over `line`, from the loop
\* state st = [filename, matches, error].
ExtractLineNoZeroTest(st, line) ==
  LET fname == IF MatchesFileHeader(line) THEN line.path ELSE st.filename
  IN  IF ~MatchesHunkHeader(line)
        THEN [st EXCEPT !.filename = fname]
        ELSE LET start_line == ToInt(line.start)
                 line_count == IF line.count # NoGroup THEN ToInt(line.count) ELSE 1
                 old == IF fname \in DOMAIN st.matches THEN st.matches[fname] ELSE <<>>
             IN  IF fname = Unbound
                   THEN [st EXCEPT !.error = TRUE]
                   ELSE [st EXCEPT !.filename = fname,
                                   !.matches = DictSet(st.matches, fname,
                                                 Append(old, Range(start_line, line_count)))]

ExtractLine(st, line) ==
  LET fname == IF MatchesFileHeader(line) THEN line.path ELSE st.filename
  IN  IF ~MatchesHunkHeader(line)
        THEN [st EXCEPT !.filename = fname]
        ELSE LET start_line == ToInt(line.start)
                 line_count == IF line.count # NoGroup THEN ToInt(line.count) ELSE 1
                 old == IF fname \in DOMAIN st.matches THEN st.matches[fname] ELSE <<>>
             IN  IF line_count > 0
                   THEN IF fname = Unbound
                          \* `filename` is read before any +++ line bound it
                          THEN [st EXCEPT !.error = TRUE]
                          ELSE [st EXCEPT !.filename = fname,
                                          !.matches = DictSet(st.matches, fname,
                                               Append(old, Range(start_line, line_count)))]
                   ELSE [st EXCEPT !.filename = fname]

\* the whole function, for callers: the dict, or "NameError"
RECURSIVE ExtractFold(_, _)
ExtractFold(st, lines) ==
  IF st.error THEN "NameError"
  ELSE IF lines = <<>> THEN st.matches
  ELSE ExtractFold(ExtractLine(st, Head(lines)), Tail(lines))

ExtractLines(lines) ==
  ExtractFold([filename |-> Unbound, matches |-> EmptyDict, error |-> FALSE], lines)

\* ---- the lines a diff is made of in the model ----
PathA == <<"a", ".", "c">>
PathB == <<"b", ".", "h">>
PathP == <<"n", ".", "p", "y">>
PathN == <<"n", "o">>

FileLine(prefix, path) == [kind |-> "+++", prefix |-> prefix, path |-> path]
HunkLine(start, count) == [kind |-> "@@", start |-> start, count |-> count]
TextLine == [kind |-> "text"]
DevNullLine == [kind |-> "+++", prefix |-> "", path |-> <<"d">>]

StartDigits == {<<1, 0>>, <<2, 1>>}
CountDigits == {NoGroup, <<0>>, <<3>>, <<1, 0>>}

DiffLines ==
  {FileLine("b", PathA), FileLine("b", PathB), DevNullLine, TextLine}
    \cup {HunkLine(s, c) : s \in StartDigits, c \in CountDigits}

InitExtractIdle ==
  /\ patch_file = <<>>
  /\ line_no = 0
  /\ matches = EmptyDict
  /\ filename = Unbound
  /\ extract_status = "idle"

StartExtractOnly ==
  /\ patch_file \in SeqsUpTo(DiffLines, MaxLines)
  /\ line_no = 0
  /\ matches = EmptyDict
  /\ filename = Unbound
  /\ extract_status = "running"

\* one iteration of `for line in patch_file`
ExtractStep ==
  /\ extract_status = "running"
  /\ line_no < Len(patch_file)
  /\ LET st == ExtractLine([filename |-> filename, matches |-> matches, error |-> FALSE],
                           patch_file[line_no + 1])
     IN  /\ line_no' = line_no + 1
         /\ filename' = st.filename
         /\ matches' = st.matches
         /\ extract_status' = IF st.error THEN "NameError" ELSE "running"
  /\ UNCHANGED <<patch_file, filterVars, configVars, tablesVars, runVars>>

\* `return matches`
ExtractReturn ==
  /\ extract_status = "running"
  /\ line_no = Len(patch_file)
  /\ extract_status' = "returned"
  /\ UNCHANGED <<patch_file, line_no, matches, filename>>
  /\ UNCHANGED <<filterVars, configVars, tablesVars, runVars>>

(***************************************************************************)
(* filter_by_extension                                                     *)
(***************************************************************************)
MaxNameLen == 3

NameChars == {".", "c", "C"}

\* str.lower() on one character of the model's alphabet
LowerChar(c) == IF c = "C" THEN "c" ELSE IF c = "H" THEN "h" ELSE c

Lower(s) == [i \in 1..Len(s) |-> LowerChar(s[i])]

\* positions of the separator character in s
Positions(s, ch) == {i \in 1..Len(s) : s[i] = ch}

Max(S) == CHOOSE x \in S : \A y \in S : y <= x
Min(S) == CHOOSE x \in S : \A y \in S : x <= y

\* filename.rsplit('.', 1): split once at the last period
RSplitDot(s) ==
  IF Positions(s, ".") = {} THEN <<s>>
  ELSE LET p == Max(Positions(s, "."))
       IN  <<SubSeq(s, 1, p - 1), SubSeq(s, p + 1, Len(s))>>

\* the test of line 301: the key is deleted
HasNoAllowedExtensionCaseSensitive(name, allowed) ==
  LET base_ext == RSplitDot(name)
  IN  Len(base_ext) = 1 \/ base_ext[2] \notin allowed

HasNoAllowedExtension(name, allowed) ==
  LET base_ext == RSplitDot(name)
  IN  Len(base_ext) = 1 \/ Lower(base_ext[2]) \notin allowed

FilterByExtensionKeepAll(d, allowed) == d

\* the dict after filter_by_extension(dictionary, allowed)
FilterByExtension(d, allowed) ==
  DictDel(d, {name \in DOMAIN d : HasNoAllowedExtension(name, allowed)})

FilterNames == SeqsUpTo(NameChars, MaxNameLen) \ {<<>>}

\* the allow-lists tried: opts.extensions.lower().split(',')
AllowLists == {{<<"c">>}, {<<"c">>, <<"c", "c">>}, {<<"c", "c">>, <<>>}}

\* the line ranges a changed file carries in the model (distinct per name)
RangesOf(name) == <<Range(Len(name), 1), Range(Len(name) + 4, Cardinality(Positions(name, ".")) + 1)>>

InitFilterIdle ==
  /\ dictionary = EmptyDict
  /\ original = EmptyDict
  /\ allowed_extensions = {}
  /\ filter_status = "idle"

StartFilterOnly ==
  /\ \E keys \in AtMostPairs(FilterNames) :
        dictionary = [name \in keys |-> RangesOf(name)]
  /\ original = dictionary
  /\ allowed_extensions \in AllowLists
  /\ filter_status = "ready"

\* filter_by_extension(changed_lines, ...): the dict is mutated in place
FilterCall ==
  /\ filter_status = "ready"
  /\ dictionary' = FilterByExtension(dictionary, allowed_extensions)
  /\ filter_status' = "returned"
  /\ UNCHANGED <<original, allowed_extensions>>
  /\ UNCHANGED <<extractVars, configVars, tablesVars, runVars>>

(***************************************************************************)
(* queries_from_config                                                     *)
(***************************************************************************)
MaxEntries == 2

NoExit == -1

QueryNames == {"q1", "q2"}
QueryTexts == {"SELECT 1;", "SELECT 2;"}

\* for query in config["scheduledQueries"]: queries[query["name"]] = query["query"]
RECURSIVE MergeScheduledQueries(_, _)
MergeScheduledQueries(qs, list) ==
  IF list = <<>> THEN qs
  ELSE MergeScheduledQueries(DictSet(qs, Head(list).name, Head(list).query), Tail(list))

\* for name, details in config["schedule"].iteritems(): queries[name] = details["query"]
MergeSchedule(qs, schedule) ==
  [n \in (DOMAIN qs) \cup (DOMAIN schedule) |->
     IF n \in DOMAIN schedule THEN schedule[n].query ELSE qs[n]]

\* lines 68-74: the dict built from a parsed document
CollectQueriesScheduleOnly(doc) ==
  IF doc.has_schedule THEN MergeSchedule(EmptyDict, doc.schedule)
  ELSE IF doc.has_scheduledQueries
         THEN MergeScheduledQueries(EmptyDict, doc.scheduledQueries)
         ELSE EmptyDict

CollectQueries(doc) ==
  LET q1 == IF doc.has_scheduledQueries
              THEN MergeScheduledQueries(EmptyDict, doc.scheduledQueries)
              ELSE EmptyDict
  IN  IF doc.has_schedule THEN MergeSchedule(q1, doc.schedule) ELSE q1

\* the outcome of queries_from_config on what is at config_path
QueriesFromConfig(file) ==
  IF file.state # "json"
    \* open() or json.loads() raised: line 65-67
    THEN [status |-> "exited", exit |-> 1, queries |-> EmptyDict]
    ELSE LET qs == CollectQueries(file.doc)
         IN  IF Cardinality(DOMAIN qs) = 0
               THEN [status |-> "exited", exit |-> 0, queries |-> qs]
               ELSE [status |-> "returned", exit |-> NoExit, queries |-> qs]

QueryEntries == [name : QueryNames, query : QueryTexts]
Schedules == UNION {[S -> [query : QueryTexts]] : S \in SUBSET QueryNames}

\* the JSON objects tried; a key that is absent has has_<key> = FALSE
ConfigDocs ==
  {[has_scheduledQueries |-> TRUE, scheduledQueries |-> l,
    has_schedule |-> hs, schedule |-> IF hs THEN m ELSE EmptyDict] :
      l \in SeqsUpTo(QueryEntries, MaxEntries), hs \in BOOLEAN, m \in Schedules}
  \cup
  {[has_scheduledQueries |-> FALSE, scheduledQueries |-> <<>>,
    has_schedule |-> hs, schedule |-> IF hs THEN m ELSE EmptyDict] :
      hs \in BOOLEAN, m \in Schedules}

NoDoc == [has_scheduledQueries |-> FALSE, scheduledQueries |-> <<>>,
          has_schedule |-> FALSE, schedule |-> EmptyDict]

ConfigFiles ==
  {[state |-> "missing", doc |-> NoDoc], [state |-> "not json", doc |-> NoDoc]}
    \cup {[state |-> "json", doc |-> d] : d \in ConfigDocs}

InitConfigIdle ==
  /\ config_file = [state |-> "missing", doc |-> NoDoc]
  /\ queries = EmptyDict
  /\ config_status = "idle"
  /\ config_exit = NoExit

StartConfigOnly ==
  /\ config_file \in ConfigFiles
  /\ queries = EmptyDict
  /\ config_status = "ready"
  /\ config_exit = NoExit

\* queries_from_config(config_path)
QueriesFromConfigCall ==
  /\ config_status = "ready"
  /\ LET r == QueriesFromConfig(config_file)
     IN  /\ config_status' = r.status
         /\ config_exit' = r.exit
         /\ queries' = r.queries
  /\ UNCHANGED <<config_file, extractVars, filterVars, tablesVars, runVars>>

(***************************************************************************)
(* platform and queries_from_tables                                        *)
(***************************************************************************)
MaxFiles == 3

StartsWith(s, prefix) ==
  Len(s) >= Len(prefix) /\ SubSeq(s, 1, Len(prefix)) = prefix

\* the first index at which `sub` occurs in s, 0 if it does not (str.find + 1)
FindSub(s, sub) ==
  LET hits == {i \in 1..(Len(s) - Len(sub) + 1) : SubSeq(s, i, i + Len(sub) - 1) = sub}
  IN  IF hits = {} THEN 0 ELSE Min(hits)

\* s.split(sub, 1)
SplitOnce(s, sub) ==
  LET p == FindSub(s, sub)
  IN  IF p = 0 THEN <<s>>
      ELSE <<SubSeq(s, 1, p - 1), SubSeq(s, p + Len(sub), Len(s))>>

\* s.split(sub)
RECURSIVE Split(_, _)
Split(s, sub) ==
  LET p == FindSub(s, sub)
  IN  IF p = 0 THEN <<s>>
      ELSE <<SubSeq(s, 1, p - 1)>> \o Split(SubSeq(s, p + Len(sub), Len(s)), sub)

\* s.strip() (blanks are the only white space of the model)
RECURSIVE Strip(_)
Strip(s) ==
  IF s = <<>> THEN s
  ELSE IF Head(s) = " " THEN Strip(Tail(s))
  ELSE IF s[Len(s)] = " " THEN Strip(SubSeq(s, 1, Len(s) - 1))
  ELSE s

StrLinux   == <<"l", "i", "n", "u", "x">>
StrFreebsd == <<"f", "r", "e", "e", "b", "s", "d">>
StrDarwin  == <<"d", "a", "r", "w", "i", "n">>
StrSpecs   == <<"s", "p", "e", "c", "s">>
StrDotTable == <<".", "t", "a", "b", "l", "e">>
StrBlacklist == <<"b", "l", "a", "c", "k", "l", "i", "s", "t">>
StrSelect == <<"SELECT * FROM ">>

\* platform(): sys.platform with linux* and freebsd* collapsed
Platform(p) ==
  IF StartsWith(p, StrLinux) THEN StrLinux
  ELSE IF StartsWith(p, StrFreebsd) THEN StrFreebsd
  ELSE p

\* Inside queries_from_tables the bare name `platform` is the module-level
\* function: the local holding its result is called spec_platform and is
\* overwritten per file.  A function object equals no string.
PlatformFunctionObject == <<"<function platform>">>

\* the files that pass lines 89-94, as "<dir>.<table>" strings
TablesFound(entries, sysplat) ==
  {e.dir \o <<".">> \o SplitOnce(e.name, StrDotTable)[1] :
     e \in {f \in entries : /\ ~(f.name[1] = "." \/ f.name = StrBlacklist)
                          /\ f.dir \in {StrSpecs, PlatformFunctionObject}}}

\* queries_from_tables(path, restrict)
QueriesFromTables(entries, sysplat, restr) ==
  LET parts == Split(restr, <<",">>)
      restrict_tables == {Strip(parts[i]) : i \in 1..Len(parts)}
      found == TablesFound(entries, sysplat)
      tables == IF Len(restr) > 0
                  THEN {t \in found : Split(t, <<".">>)[2] \in restrict_tables}
                  ELSE found
  IN  [t \in tables |-> StrSelect \o SplitOnce(t, <<".">>)[2] \o <<";">>]

TableDirs == {StrSpecs, StrLinux, StrDarwin}
FileNameFoo == <<"f", "o", "o">> \o StrDotTable
FileNameBar == <<"b", "a", "r">> \o StrDotTable
FileNameHidden == <<".", "f", "o", "o">> \o StrDotTable
TableFileNames == {FileNameFoo, FileNameBar, FileNameHidden, StrBlacklist}
TableFiles == [dir : TableDirs, name : TableFileNames]
SysPlatforms == {StrLinux \o <<"2">>, StrDarwin}
Restrictions == {<<>>, <<"f", "o", "o">>, <<"f", "o", "o", ",", " ", "b", "a", "r">>}

InitTablesIdle ==
  /\ fs = {}
  /\ sys_platform = StrDarwin
  /\ restrict = <<>>
  /\ table_queries = EmptyDict
  /\ tables_status = "idle"

StartTablesOnly ==
  /\ fs \in {S \in SUBSET TableFiles : Cardinality(S) <= MaxFiles}
  /\ sys_platform \in SysPlatforms
  /\ restrict \in Restrictions
  /\ table_queries = EmptyDict
  /\ tables_status = "ready"

QueriesFromTablesCall ==
  /\ tables_status = "ready"
  /\ table_queries' = QueriesFromTables(fs, sys_platform, restrict)
  /\ tables_status' = "returned"
  /\ UNCHANGED <<fs, sys_platform, restrict>>
  /\ UNCHANGED <<extractVars, filterVars, configVars, runVars>>

(***************************************************************************)
(* git-clang-format: the pieces of main() that decide the command line     *)
(***************************************************************************)
MaxArgs == 2

\* A revision token is named by what git knows of it: the four object
\* kinds, "path" (no object, but an existing file: rev-parse accepts it), and
\* "unknown" (neither: rev-parse fails).
ObjectKinds == {"commit", "tag", "tree", "blob"}
Tokens == ObjectKinds \cup {"path", "unknown"}

None == "<None>"

\* get_object_type(value): the output of `git cat-file -t`, None when it fails
GetObjectType(value) == IF value \in ObjectKinds THEN value ELSE None

\* the ways a run ends early: the exception raised, the exit status of the
\* process, and what went to stderr on the way
NoOutcome == [exc |-> "none", status |-> NoExit, err |-> <<>>]

\* die(message)
DieWithStatusOne(message) ==
  [exc |-> "SystemExit", status |-> 1, err |-> <<<<"error:", message>>>>]

Die(message) ==
  [exc |-> "SystemExit", status |-> 2, err |-> <<<<"error:", message>>>>]

\* run(*args) when the command returned non-zero: lines 470-474
RunFailed(cmd, verbose) ==
  [exc |-> "SystemExit", status |-> 2,
   err |-> (IF verbose THEN <<<<"returned", cmd>>>> ELSE <<>>) \o <<<<"stderr of", cmd>>>>]

\* sys.exit(2) with the messages already printed
SysExit2(lines) == [exc |-> "SystemExit", status |-> 2, err |-> lines]

\* an exception nothing catches: traceback, exit status 1
Uncaught(exc, cmd) == [exc |-> exc, status |-> 1, err |-> <<<<"Traceback", cmd>>>>]

\* disambiguate_revision(value): [revision |-> True/False, exit |-> how it died]
DisambiguateRevisionBlobIsFile(value) ==
  IF value = "unknown"
    THEN [revision |-> FALSE, cause |-> "ambiguous_revision",
          exit |-> RunFailed("git rev-parse", FALSE)]
    ELSE LET object_type == GetObjectType(value)
         IN  IF object_type = None \/ object_type = "blob"
               THEN [revision |-> FALSE, cause |-> "none", exit |-> NoOutcome]
             ELSE IF object_type \in {"commit", "tag"}
               THEN [revision |-> TRUE, cause |-> "none", exit |-> NoOutcome]
             ELSE [revision |-> FALSE, cause |-> "invalid_revision",
                   exit |-> Die(<<value, "is a", object_type,
                                  "but a commit or filename was expected">>)]

DisambiguateRevision(value) ==
  IF value = "unknown"
    \* `git rev-parse` fails on what is neither a revision nor a file
    THEN [revision |-> FALSE, cause |-> "ambiguous_revision",
          exit |-> RunFailed("git rev-parse", FALSE)]
    ELSE LET object_type == GetObjectType(value)
         IN  IF object_type = None
               THEN [revision |-> FALSE, cause |-> "none", exit |-> NoOutcome]
             ELSE IF object_type \in {"commit", "tag"}
               THEN [revision |-> TRUE, cause |-> "none", exit |-> NoOutcome]
             ELSE [revision |-> FALSE, cause |-> "invalid_revision",
                   exit |-> Die(<<value, "is a", object_type,
                                  "but a commit or filename was expected">>)]

\* interpret_args(args, dash_dash, default_commit)
InterpretArgs(a, dd, dflt) ==
  IF dd # <<>>
    THEN IF Len(a) > 1
           THEN [commit |-> None, files |-> <<>>, cause |-> "invalid_revision",
                 exit |-> Die(<<"at most one commit allowed", "given", a>>)]
           ELSE LET c == IF Len(a) = 0 THEN dflt ELSE a[1]
                    object_type == GetObjectType(c)
                IN  IF object_type \notin {"commit", "tag"}
                      THEN [commit |-> c, files |-> <<>>, cause |-> "invalid_revision",
                            exit |-> IF object_type = None
                                       THEN Die(<<c, "is not a commit">>)
                                       ELSE Die(<<c, "is a", object_type,
                                                  "but a commit was expected">>)]
                      ELSE [commit |-> c, files |-> Tail(dd), cause |-> "none",
                            exit |-> NoOutcome]
  ELSE IF a # <<>>
    THEN LET d == DisambiguateRevision(a[1])
         IN  IF d.exit.exc # "none"
               THEN [commit |-> None, files |-> <<>>, cause |-> d.cause, exit |-> d.exit]
             ELSE IF d.revision
               THEN [commit |-> a[1], files |-> Tail(a), cause |-> "none", exit |-> NoOutcome]
             ELSE [commit |-> dflt, files |-> a, cause |-> "none", exit |-> NoOutcome]
  ELSE [commit |-> dflt, files |-> <<>>, cause |-> "none", exit |-> NoOutcome]

(***************************************************************************)
(* git-clang-format: a run of main()                                       *)
(***************************************************************************)
\* opts.extensions.lower().split(','): the allow-list of the runs
RunExtensions == {<<"c">>, <<"h">>}

RepoFiles == {PathA, PathB, PathP, PathN}

\* what `git diff-index -p -U0` may print in a run
DiffOutputs ==
  { <<>>,
    <<TextLine, FileLine("b", PathA), HunkLine(<<1, 0>>, NoGroup), HunkLine(<<2, 1>>, <<3>>)>>,
    <<FileLine("b", PathA), HunkLine(<<1, 0>>, <<0>>)>>,
    <<FileLine("b", PathA), HunkLine(<<1, 0>>, NoGroup),
      FileLine("b", PathP), HunkLine(<<2, 1>>, <<3>>)>>,
    <<FileLine("b", PathA), HunkLine(<<2, 1>>, <<3>>),
      FileLine("b", PathB), HunkLine(<<1, 0>>, NoGroup)>>,
    <<FileLine("b", PathN), HunkLine(<<1, 0>>, NoGroup),
      FileLine("b", PathP), HunkLine(<<1, 0>>, NoGroup)>> }

\* file contents: what is on disk at the start, and what clang-format makes
Original(f) == <<"original", f>>
Formatted(f) == <<"clang-formatted", f>>

\* absent values, shaped like the values they stand in for
NoTree == [f \in {<<"<none>">>} |-> <<"<none>">>]
NoFile == [f \in {<<"<no file>">>} |-> <<"<no file>">>]

Unset == "<unset>"
UserIndex == ".git/index.user"
\* os.path.join(gitdir, temp_index_basename)
TempIndexPath == ".git/clang-format-index"

\* the command lines of the runs: [args, dash_dash, commit (the default)]
RunCommandLines ==
  { [args |-> <<>>, dash_dash |-> <<>>, commit |-> "commit"],
    [args |-> <<"tag", "path">>, dash_dash |-> <<>>, commit |-> "commit"],
    [args |-> <<"path">>, dash_dash |-> <<>>, commit |-> "unknown"],
    [args |-> <<"tree">>, dash_dash |-> <<>>, commit |-> "commit"],
    [args |-> <<"unknown">>, dash_dash |-> <<>>, commit |-> "commit"],
    [args |-> <<"commit">>, dash_dash |-> <<"--", "path">>, commit |-> "commit"],
    [args |-> <<"blob">>, dash_dash |-> <<"--">>, commit |-> "commit"],
    [args |-> <<"commit", "tag">>, dash_dash |-> <<"--">>, commit |-> "commit"] }

Verbosities == {-1, 0, 1}

\* opts.style: the default None (line 106), or the string given with --style
\* or in clangformat.style, which may be empty
Styles == {None, "", "LLVM"}

InitRunIdle ==
  /\ pc = "idle"
  /\ args = <<>> /\ dash_dash = <<>>
  /\ opts = [commit |-> "commit", diff |-> FALSE, force |-> FALSE, patch |-> FALSE,
             style |-> None, verbose |-> 0]
  /\ commit = None /\ files = <<>>
  /\ changed_lines = EmptyDict
  /\ old_tree = NoTree /\ new_tree = NoTree
  /\ todo = {} /\ index_info = EmptyDict /\ changed_files = {}
  /\ site = "none" /\ pending = NoOutcome
  /\ git_index_file = Unset /\ old_index_path = Unset
  /\ initial_index_file = Unset
  /\ temp_index = NoFile
  /\ workdir = [f \in RepoFiles |-> Original(f)]
  /\ unstaged = {}
  /\ written = {}
  /\ diff_stdout = <<>> /\ invocations = <<>>
  /\ called = {}
  /\ stdout = <<>> /\ stderr = <<>>
  /\ exit_status = NoExit
  /\ fatal = "none"

InitRunCommon ==
  /\ commit = None /\ files = <<>>
  /\ changed_lines = EmptyDict
  /\ old_tree = NoTree /\ new_tree = NoTree
  /\ todo = {} /\ index_info = EmptyDict /\ changed_files = {}
  /\ site = "none" /\ pending = NoOutcome
  /\ old_index_path = Unset
  /\ temp_index = NoFile
  /\ workdir = [f \in RepoFiles |-> Original(f)]
  /\ written = {}
  /\ diff_stdout = <<>> /\ invocations = <<>>
  /\ called = {}
  /\ stdout = <<>> /\ stderr = <<>>
  /\ exit_status = NoExit
  /\ fatal = "none"

\* a run from its first statement
StartRunOnly ==
  /\ pc = "load_git_config"
  /\ \E cl \in RunCommandLines :
       /\ args = cl.args
       /\ dash_dash = cl.dash_dash
       /\ \E d \in BOOLEAN, f \in BOOLEAN, p \in BOOLEAN, v \in Verbosities, st \in Styles :
            opts = [commit |-> cl.commit, diff |-> d, force |-> f, patch |-> p,
                    style |-> st, verbose |-> v]
  /\ git_index_file \in {Unset, UserIndex}
  /\ initial_index_file = git_index_file
  /\ unstaged \in SUBSET {PathA, PathB}
  /\ InitRunCommon

\* the call of interpret_args alone, over every command line up to MaxArgs
StartArgsOnly ==
  /\ pc = "interpret_args"
  /\ args \in SeqsUpTo(Tokens, MaxArgs)
  /\ dash_dash \in {<<>>, <<"--">>, <<"--", "path">>}
  /\ \E c \in {"commit", "tree", "unknown"} :
       opts = [commit |-> c, diff |-> FALSE, force |-> FALSE, patch |-> FALSE,
               style |-> None, verbose |-> 0]
  /\ git_index_file = Unset
  /\ initial_index_file = Unset
  /\ unstaged = {}
  /\ InitRunCommon

\* the initial states of the specifications: one part of the program is
\* started, the others are idle
InitExtract ==
  StartExtractOnly /\ InitFilterIdle /\ InitConfigIdle /\ InitTablesIdle /\ InitRunIdle
InitFilter ==
  StartFilterOnly /\ InitExtractIdle /\ InitConfigIdle /\ InitTablesIdle /\ InitRunIdle
InitConfig ==
  StartConfigOnly /\ InitExtractIdle /\ InitFilterIdle /\ InitTablesIdle /\ InitRunIdle
InitTables ==
  StartTablesOnly /\ InitExtractIdle /\ InitFilterIdle /\ InitConfigIdle /\ InitRunIdle
InitArgs ==
  StartArgsOnly /\ InitExtractIdle /\ InitFilterIdle /\ InitConfigIdle /\ InitTablesIdle
InitRun ==
  StartRunOnly /\ InitExtractIdle /\ InitFilterIdle /\ InitConfigIdle /\ InitTablesIdle

\* ---- how a step ends ----
\* the process ends here with outcome o (nothing is left to unwind)
Exit(o, cause) ==
  /\ pc' = "done"
  /\ exit_status' = o.status
  /\ stderr' = stderr \o o.err
  /\ fatal' = cause

Goto(next) ==
  /\ pc' = next
  /\ UNCHANGED <<stderr, exit_status, fatal>>

\* main() returns: the interpreter exits with status 0
Return ==
  /\ pc' = "done"
  /\ exit_status' = 0
  /\ UNCHANGED <<stderr, fatal>>

\* line 58: config = load_git_config()
LoadGitConfig ==
  /\ pc = "load_git_config"
  /\ \/ Goto("interpret_args")
     \/ Exit(RunFailed("git config", TRUE), "git_config")
  /\ UNCHANGED <<nonRunVars, traceVars, inputVars, commit, files, treeVars, scopeVars, worktreeVars, called, stdout>>

\* line 122: commit, files = interpret_args(opts.args, dash_dash, opts.commit)
InterpretArgsStep ==
  /\ pc = "interpret_args"
  /\ LET r == InterpretArgs(args, dash_dash, opts.commit)
     IN  /\ commit' = r.commit
         /\ files' = r.files
         /\ IF r.exit.exc = "none"
              THEN Goto("compute_diff")
              ELSE Exit(r.exit, r.cause)
  /\ UNCHANGED <<nonRunVars, traceVars, inputVars, treeVars, scopeVars, worktreeVars, called, stdout>>

\* line 123: changed_lines = compute_diff_and_extract_lines(commit, files)
ComputeDiffAndExtractLines ==
  /\ pc = "compute_diff"
  /\ \/ \E diff \in DiffOutputs :
          /\ GetObjectType(commit) \in {"commit", "tag", "tree"}
          /\ diff_stdout' = diff
          /\ changed_lines' = ExtractLines(diff)
          /\ Goto("filter")
     \/ \* diff_process.returncode != 0: sys.exit(2), git printed the error
        /\ diff_stdout' = <<>>
        /\ changed_lines' = EmptyDict
        /\ Exit(SysExit2(<<<<"stderr of", "git diff-index">>>>), "diff")
  /\ UNCHANGED <<nonRunVars, invocations, inputVars, commit, files, old_tree, new_tree, todo, index_info,
                 changed_files, scopeVars, worktreeVars, called, stdout>>

\* lines 124-139: filter_by_extension, the verbose report, the empty case
FilterAndReport ==
  /\ pc = "filter"
  /\ LET kept == FilterByExtension(changed_lines, RunExtensions)
         ignored_files == (DOMAIN changed_lines) \ (DOMAIN kept)
         report == (IF opts.verbose >= 1 /\ ignored_files # {}
                      THEN <<"Ignoring changes in the following files (wrong extension):">>
                      ELSE <<>>)
                   \o (IF opts.verbose >= 1 /\ DOMAIN kept # {}
                         THEN <<"Running clang-format on the following files:">>
                         ELSE <<>>)
     IN  /\ changed_lines' = kept
         /\ IF DOMAIN kept = {}
              THEN /\ stdout' = stdout \o report \o <<"no modified files to format">>
                   /\ Return
              ELSE /\ stdout' = stdout \o report
                   /\ Goto("cd_to_toplevel")
  /\ UNCHANGED <<nonRunVars, traceVars, inputVars, commit, files, old_tree, new_tree, todo, index_info,
                 changed_files, scopeVars, worktreeVars, called>>

\* line 142: cd_to_toplevel(); then line 143 enters create_tree
CdToToplevel ==
  /\ pc = "cd_to_toplevel"
  /\ \/ /\ Goto("enter")
        /\ site' = "old_tree"
     \/ /\ Exit(RunFailed("git rev-parse --show-toplevel", TRUE), "toplevel")
        /\ UNCHANGED site
  /\ UNCHANGED <<nonRunVars, traceVars, inputVars, commit, files, treeVars, pending, git_index_file,
                 old_index_path, temp_index, worktreeVars, called, stdout>>

\* ---- with temporary_index_file(tree): ----
\* the tree each use reads into the temporary index (None: --empty)
TreeRead(s) ==
  IF s = "apply_patch" THEN old_tree
  ELSE IF s = "apply_checkout" THEN new_tree
  ELSE EmptyDict

\* lines 388-390: create_temporary_index(tree), then the override is installed
EnterTemporaryIndex ==
  /\ pc = "enter"
  /\ \/ /\ temp_index' = TreeRead(site)
        /\ old_index_path' = git_index_file
        /\ git_index_file' = TempIndexPath
        /\ Goto("body")
     \/ /\ Exit(RunFailed("git rev-parse --git-dir", TRUE), "git_dir")
        /\ UNCHANGED <<temp_index, old_index_path, git_index_file>>
     \/ /\ Exit(RunFailed("git read-tree", TRUE), "read_tree")
        /\ UNCHANGED <<temp_index, old_index_path, git_index_file>>
  /\ UNCHANGED <<nonRunVars, traceVars, inputVars, commit, files, treeVars, site, pending, worktreeVars,
                 called, stdout>>

\* what the finally clause of temporary_index_file does to the environment
RestoredOnlyOnSuccess(exc) == IF exc = "none" THEN old_index_path ELSE git_index_file

RestoredIndexPath(exc) == old_index_path

\* what it leaves of the temporary file: os.remove(index_path)
RemainingTempIndex(exc) == NoFile

\* where main() goes on after the with block of a site
AfterScope(s) ==
  IF s = "old_tree" THEN "enter"
  ELSE IF s = "new_tree" THEN "compare"
  ELSE "report"

\* lines 393-398: the finally clause, then the exception (if any) goes on
LeaveTemporaryIndex ==
  /\ pc = "leave"
  /\ git_index_file' = RestoredIndexPath(pending.exc)
  /\ temp_index' = RemainingTempIndex(pending.exc)
  /\ IF pending.exc = "none"
       THEN /\ Goto(AfterScope(site))
            /\ site' = IF site = "old_tree" THEN "new_tree" ELSE "none"
            /\ todo' = IF site = "old_tree" THEN DOMAIN changed_lines ELSE todo
       ELSE /\ pc' = "done"
            /\ exit_status' = pending.status
            /\ UNCHANGED <<stderr, fatal, site, todo>>
  /\ UNCHANGED <<nonRunVars, traceVars, inputVars, commit, files, changed_lines, old_tree, new_tree, index_info,
                 changed_files, pending, old_index_path, worktreeVars, called, stdout>>

\* an exception (or sys.exit) raised inside the with block: it is printed,
\* and the finally clause runs next
Raise(o, cause) ==
  /\ pc' = "leave"
  /\ pending' = o
  /\ stderr' = stderr \o o.err
  /\ fatal' = cause
  /\ UNCHANGED exit_status

\* the with block ends normally
EndBlock ==
  /\ pc' = "leave"
  /\ UNCHANGED <<pending, stderr, fatal, exit_status>>

\* create_tree(filenames, '--stdin'), lines 342-349, for the old tree
CreateTreeFromWorkdir ==
  /\ pc = "body" /\ site = "old_tree"
  /\ \/ /\ temp_index' = [f \in DOMAIN changed_lines |-> workdir[f]]
        /\ old_tree' = temp_index'
        /\ EndBlock
     \/ /\ Raise(Die(<<"git update-index", "failed">>), "update_index")
        /\ UNCHANGED <<temp_index, old_tree>>
     \/ /\ temp_index' = [f \in DOMAIN changed_lines |-> workdir[f]]
        /\ Raise(RunFailed("git write-tree", TRUE), "write_tree")
        /\ UNCHANGED old_tree
  /\ UNCHANGED <<nonRunVars, traceVars, inputVars, commit, files, changed_lines, new_tree, todo, index_info,
                 changed_files, site, git_index_file, old_index_path, worktreeVars,
                 called, stdout>>

\* what clang-format may print for a file: it reformats the ranges or finds
\* them formatted already
FormatterOutputs(f) == {workdir[f], Formatted(f)}

\* --binary: config.get('clangformat.binary', 'clang-format')
Binary == "clang-format"

\* lines 358-359: `if style:` adds one -style argument
StyleArguments(style) ==
  IF style \notin {None, ""} THEN << <<"-style=", style>> >> ELSE <<>>

\* line 361: '-lines={0!s}:{1!s}'.format(start_line, start_line+line_count-1)
LinesArgumentExclusiveEnd(r) == <<"-lines=", r.start, ":", r.start + r.count>>

LinesArgument(r) == <<"-lines=", r.start, ":", r.start + r.count - 1>>

\* lines 357-362: clang_format_cmd
ClangFormatCmd(name, line_ranges, binary, style) ==
  << <<binary>>, name >> \o StyleArguments(style)
    \o [i \in 1..Len(line_ranges) |-> LinesArgument(line_ranges[i])]

\* one round of index_info_generator: clang_format_to_blob(filename, ...).
\* subprocess.Popen either starts the formatter or raises OSError; once it is
\* started, hash-object or the formatter itself may fail.
FormatFile ==
  /\ pc = "body" /\ site = "new_tree" /\ todo # {}
  /\ \E f \in todo :
       LET started == Append(invocations,
                             ClangFormatCmd(f, changed_lines[f], Binary, opts.style))
       IN
       \/ \E blob \in FormatterOutputs(f) :
            /\ invocations' = started
            /\ index_info' = DictSet(index_info, f, blob)
            /\ todo' = todo \ {f}
            /\ UNCHANGED <<pc, pending, stderr, fatal, exit_status>>
       \/ /\ Raise(Die(<<"cannot find executable", Binary>>), "missing_formatter")
          /\ UNCHANGED <<index_info, todo, invocations>>
       \/ /\ Raise(Uncaught("OSError", Binary), "formatter_launch")
          /\ UNCHANGED <<index_info, todo, invocations>>
       \/ /\ invocations' = started
          /\ Raise(Die(<<"git hash-object", "failed">>), "hash_object")
          /\ UNCHANGED <<index_info, todo>>
       \/ /\ invocations' = started
          /\ Raise(Die(<<Binary, "failed">>), "formatter")
          /\ UNCHANGED <<index_info, todo>>
  /\ UNCHANGED <<nonRunVars, diff_stdout, inputVars, commit, files, changed_lines, old_tree, new_tree,
                 changed_files, site, git_index_file, old_index_path, temp_index,
                 worktreeVars, called, stdout>>

\* create_tree(index_info_generator(), '--index-info') once the generator is
\* exhausted: lines 345-349
SaveFormattedTree ==
  /\ pc = "body" /\ site = "new_tree" /\ todo = {}
  /\ \/ /\ temp_index' = index_info
        /\ new_tree' = index_info
        /\ EndBlock
     \/ /\ Raise(Die(<<"git update-index", "failed">>), "update_index")
        /\ UNCHANGED <<temp_index, new_tree>>
     \/ /\ temp_index' = index_info
        /\ Raise(RunFailed("git write-tree", TRUE), "write_tree")
        /\ UNCHANGED new_tree
  /\ UNCHANGED <<nonRunVars, traceVars, inputVars, commit, files, changed_lines, old_tree, todo, index_info,
                 changed_files, site, git_index_file, old_index_path, worktreeVars,
                 called, stdout>>

\* lines 150-156: which branch of main() the two tree ids and --diff select
AfterCompareIgnoringDiff(old, new, diff) ==
  IF old = new THEN "return" ELSE "apply_changes"

AfterCompareIgnoringEquality(old, new, diff) ==
  IF diff THEN "print_diff" ELSE "apply_changes"

AfterCompare(old, new, diff) ==
  IF old = new THEN "return"
  ELSE IF diff THEN "print_diff"
  ELSE "apply_changes"

\* lines 147-156: the comparison of the two tree ids
CompareTrees ==
  /\ pc = "compare"
  /\ LET trees == IF opts.verbose >= 1 THEN <<"old tree:", "new tree:">> ELSE <<>>
         branch == AfterCompare(old_tree, new_tree, opts.diff)
     IN  IF branch = "return"
           THEN /\ stdout' = stdout \o trees \o
                      (IF opts.verbose >= 0
                         THEN <<"clang-format did not modify any files">> ELSE <<>>)
                /\ Return
           ELSE /\ stdout' = stdout \o trees
                /\ Goto(branch)
  /\ UNCHANGED <<nonRunVars, traceVars, inputVars, commit, files, treeVars, scopeVars, worktreeVars, called>>

\* line 154: print_diff(old_tree, new_tree): subprocess.check_call(git diff)
PrintDiff ==
  /\ pc = "print_diff"
  /\ called' = called \cup {"print_diff"}
  /\ \/ /\ stdout' = stdout \o <<"diff">>
        /\ Return
     \/ /\ Exit(Uncaught("CalledProcessError", "git diff"), "print_diff")
        /\ UNCHANGED stdout
  /\ UNCHANGED <<nonRunVars, traceVars, inputVars, commit, files, treeVars, scopeVars, worktreeVars>>

\* the paths `git diff-tree -r --name-only old new` names
DiffTree(old, new) ==
  {f \in (DOMAIN old) \cup (DOMAIN new) :
     f \notin DOMAIN old \/ f \notin DOMAIN new \/ old[f] # new[f]}

\* apply_changes, lines 427-436: the changed files and the unstaged check
ApplyChangesCheckForced(force) == FALSE

ApplyChangesCheck(force) == ~force

ApplyChanges ==
  /\ pc = "apply_changes"
  /\ called' = called \cup {"apply_changes"}
  /\ \/ /\ changed_files' = DiffTree(old_tree, new_tree)
        /\ IF ApplyChangesCheck(opts.force) /\ changed_files' \cap unstaged # {}
             THEN /\ Exit(SysExit2(<<
                       <<"The following files would be modified but have unstaged changes:">>,
                       <<"unstaged", changed_files' \cap unstaged>>,
                       <<"Please commit, stage, or stash them first.">> >>), "unstaged")
                  /\ UNCHANGED site
             ELSE /\ Goto("enter")
                  /\ site' = IF opts.patch THEN "apply_patch" ELSE "apply_checkout"
     \/ /\ Exit(RunFailed("git diff-tree", TRUE), "diff_tree")
        /\ UNCHANGED <<changed_files, site>>
     \/ /\ ApplyChangesCheck(opts.force)
        /\ changed_files' = DiffTree(old_tree, new_tree)
        /\ Exit(RunFailed("git diff-files", TRUE), "diff_files")
        /\ UNCHANGED site
  /\ UNCHANGED <<nonRunVars, traceVars, inputVars, commit, files, changed_lines, old_tree, new_tree, todo,
                 index_info, pending, git_index_file, old_index_path, temp_index,
                 worktreeVars, stdout>>

\* the working tree after the files in fs were checked out of `tree`
CheckedOut(tree, fs_) == [f \in DOMAIN workdir |-> IF f \in fs_ THEN tree[f] ELSE workdir[f]]

\* line 445: git checkout --patch new_tree, the index being the old tree: the
\* user takes the change of some of the files that differ, and the command
\* may fail after it wrote some
CheckoutPatch ==
  /\ pc = "body" /\ site = "apply_patch"
  /\ \E taken \in SUBSET DiffTree(temp_index, new_tree) :
       /\ workdir' = CheckedOut(new_tree, taken)
       /\ written' = written \cup taken
       /\ \/ EndBlock
          \/ Raise(Uncaught("CalledProcessError", "git checkout --patch"), "patch_checkout")
  /\ UNCHANGED <<nonRunVars, traceVars, inputVars, commit, files, treeVars, site, git_index_file,
                 old_index_path, temp_index, called, stdout>>

\* line 449: git checkout-index -a -f writes every entry of the index
CheckoutIndex ==
  /\ pc = "body" /\ site = "apply_checkout"
  /\ \/ /\ workdir' = CheckedOut(temp_index, DOMAIN temp_index)
        /\ written' = written \cup DOMAIN temp_index
        /\ EndBlock
     \/ \E some \in (SUBSET DOMAIN temp_index) \ {DOMAIN temp_index} :
          /\ workdir' = CheckedOut(temp_index, some)
          /\ written' = written \cup some
          /\ Raise(RunFailed("git checkout-index", TRUE), "checkout")
  /\ UNCHANGED <<nonRunVars, traceVars, inputVars, commit, files, treeVars, site, git_index_file,
                 old_index_path, temp_index, called, stdout>>

\* lines 158-161: the list of changed files, then main() returns
ReportChangedFiles ==
  /\ pc = "report"
  /\ stdout' = stdout \o
       (IF (opts.verbose >= 0 /\ ~opts.patch) \/ opts.verbose >= 1
          THEN <<"changed files:">> ELSE <<>>)
  /\ Return
  /\ UNCHANGED <<nonRunVars, traceVars, inputVars, commit, files, treeVars, scopeVars, worktreeVars, called>>

(***************************************************************************)
(* Specifications                                                          *)
(***************************************************************************)
\* filter_by_extension alone
NextFilter == FilterCall
SpecFilter == InitFilter /\ [][NextFilter]_vars

\* extract_lines alone
NextExtract == ExtractStep \/ ExtractReturn
SpecExtract == InitExtract /\ [][NextExtract]_vars

\* queries_from_config alone
NextConfig == QueriesFromConfigCall
SpecConfig == InitConfig /\ [][NextConfig]_vars

\* queries_from_tables alone
NextTables == QueriesFromTablesCall
SpecTables == InitTables /\ [][NextTables]_vars

\* interpret_args alone
NextArgs == InterpretArgsStep
SpecArgs == InitArgs /\ [][NextArgs]_vars

\* a run of git-clang-format
Next ==
  \/ LoadGitConfig \/ InterpretArgsStep \/ ComputeDiffAndExtractLines
  \/ FilterAndReport \/ CdToToplevel
  \/ EnterTemporaryIndex \/ LeaveTemporaryIndex
  \/ CreateTreeFromWorkdir \/ FormatFile \/ SaveFormattedTree
  \/ CompareTrees \/ PrintDiff
  \/ ApplyChanges \/ CheckoutPatch \/ CheckoutIndex \/ ReportChangedFiles
Spec == InitRun /\ [][Next]_vars

(***************************************************************************)
(* Properties of extract_lines                                             *)
(***************************************************************************)
\* the path of the last `+++ <prefix>/<path>` line before line i
OwnerOf(lines, i) ==
  LET heads == {j \in 1..(i - 1) : MatchesFileHeader(lines[j])}
  IN  IF heads = {} THEN Unbound ELSE lines[Max(heads)].path

\* the count a hunk header states: 1 when it has no `,<count>`
StatedCount(line) == IF line.count = NoGroup THEN 1 ELSE ToInt(line.count)

\* the hunk headers among the first n lines that state a count that is not 0
CountedHunks(lines, n) ==
  {i \in 1..n : MatchesHunkHeader(lines[i]) /\ StatedCount(lines[i]) # 0}

\* the elements of a set of line numbers, in increasing order
RECURSIVE InOrder(_)
InOrder(S) == IF S = {} THEN <<>> ELSE <<Min(S)>> \o InOrder(S \ {Min(S)})

RangesInDiffOrder(lines, path) ==
  LET idx == InOrder({i \in CountedHunks(lines, Len(lines)) : OwnerOf(lines, i) = path})
  IN  [k \in 1..Len(idx) |-> Range(ToInt(lines[idx[k]].start), StatedCount(lines[idx[k]]))]

\* C7: when extract_lines returns, every file owns exactly the ranges of the
\* hunk headers that follow its `+++` header (up to the next one) and state a
\* count other than 0, in diff order, with count 1 for a header without a
\* count; no recorded range has count 0 and a file whose hunks all state 0
\* has no entry.  The function raises NameError only on input that is no
\* diff: a counted hunk before any file header.
ExtractLinesCorrect ==
  /\ extract_status = "returned" =>
       /\ DOMAIN matches =
            {OwnerOf(patch_file, i) : i \in CountedHunks(patch_file, Len(patch_file))}
       /\ \A f \in DOMAIN matches :
            /\ matches[f] = RangesInDiffOrder(patch_file, f)
            /\ matches[f] # <<>>
            /\ \A k \in 1..Len(matches[f]) : matches[f][k].count >= 1
       /\ Unbound \notin DOMAIN matches
  /\ extract_status = "NameError" =>
       \E i \in CountedHunks(patch_file, line_no) : OwnerOf(patch_file, i) = Unbound

\* the example of the claim: `@@ -10 +10 @@` then `@@ -20,0 +21,3 @@` of one
\* file give [(10,1), (21,3)]
ExtractLinesWitness ==
  /\ extract_status = "returned"
  /\ patch_file = <<FileLine("b", PathA), HunkLine(<<1, 0>>, NoGroup), HunkLine(<<2, 1>>, <<3>>)>>
  /\ matches = (PathA :> <<Range(10, 1), Range(21, 3)>>)

\* a pure deletion is met and leaves no entry
ExtractLinesZeroWitness ==
  /\ extract_status = "returned"
  /\ \E i \in 1..Len(patch_file) :
        MatchesHunkHeader(patch_file[i]) /\ patch_file[i].count = <<0>>
  /\ matches = EmptyDict

(***************************************************************************)
(* Properties of filter_by_extension                                       *)
(***************************************************************************)
\* name = <base> . <ext> where ext holds no period and, lowercased, is allowed
HasAllowedLastSegment(name, allowed) ==
  \E p \in 1..Len(name) :
     /\ name[p] = "."
     /\ \A q \in (p + 1)..Len(name) : name[q] # "."
     /\ [i \in 1..(Len(name) - p) |-> LowerChar(name[p + i])] \in allowed

\* C10: after filter_by_extension the dict holds exactly the original entries
\* whose name has a last period-separated segment that, lowercased, is in the
\* allow-list (a name without a period has none), each with its ranges
\* unchanged.
FilterByExtensionCorrect ==
  filter_status = "returned" =>
    /\ DOMAIN dictionary =
         {name \in DOMAIN original : HasAllowedLastSegment(name, allowed_extensions)}
    /\ \A name \in DOMAIN dictionary : dictionary[name] = original[name]

\* one entry is kept through an upper-case extension, another has a period
\* and is removed
FilterByExtensionWitness ==
  /\ filter_status = "returned"
  /\ \E kept \in DOMAIN dictionary : "C" \in {kept[i] : i \in DOMAIN kept}
  /\ \E gone \in (DOMAIN original) \ (DOMAIN dictionary) : Positions(gone, ".") # {}

(***************************************************************************)
(* Properties of queries_from_config                                       *)
(***************************************************************************)
ListPairs(doc) ==
  IF doc.has_scheduledQueries
    THEN {<<doc.scheduledQueries[i].name, doc.scheduledQueries[i].query>> :
            i \in 1..Len(doc.scheduledQueries)}
    ELSE {}

SchedulePairs(doc) ==
  IF doc.has_schedule
    THEN {<<n, doc.schedule[n].query>> : n \in DOMAIN doc.schedule}
    ELSE {}

Names(pairs) == {pr[1] : pr \in pairs}

\* C8: a config that cannot be opened or parsed ends the process with status
\* 1; otherwise the dict names exactly the names of the scheduledQueries list
\* and of the schedule mapping, each with a query one of the two gives it
\* (the only one when the name occurs once); an empty dict ends the process
\* with status 0, a non-empty one is returned.
QueriesFromConfigCorrect ==
  config_status # "ready" =>
    LET doc == config_file.doc
        all == ListPairs(doc) \cup SchedulePairs(doc)
    IN  IF config_file.state # "json"
          THEN config_status = "exited" /\ config_exit = 1
          ELSE /\ DOMAIN queries = Names(all)
               /\ \A n \in DOMAIN queries : <<n, queries[n]>> \in all
               /\ IF all = {}
                    THEN config_status = "exited" /\ config_exit = 0
                    ELSE config_status = "returned" /\ config_exit = NoExit

\* one entry in each of the two places, distinct names: a two-entry dict
QueriesFromConfigWitness ==
  /\ config_status = "returned"
  /\ Len(config_file.doc.scheduledQueries) = 1
  /\ Cardinality(DOMAIN config_file.doc.schedule) = 1
  /\ Cardinality(DOMAIN queries) = 2

\* both keys present with no entries: the exit-0 path
QueriesFromConfigEmptyWitness ==
  /\ config_status = "exited" /\ config_exit = 0
  /\ config_file.doc.has_scheduledQueries /\ config_file.doc.has_schedule

(***************************************************************************)
(* Properties of queries_from_tables                                       *)
(***************************************************************************)
\* the files of the claim: not hidden, not `blacklist`, and under a directory
\* called `specs` or like the normalized platform
EligibleFiles ==
  {f \in fs : /\ f.name[1] # "."
              /\ f.name # StrBlacklist
              /\ f.dir \in {StrSpecs, Platform(sys_platform)}}

\* C2: with an empty restriction queries_from_tables returns exactly one
\* entry `<platform>.<table>` -> `SELECT * FROM <table>;` for every file that
\* is not hidden, not `blacklist`, and whose parent directory is `specs` or
\* the current normalized platform.
QueriesFromTablesAllPlatformTables ==
  (tables_status = "returned" /\ restrict = <<>>) =>
    /\ DOMAIN table_queries =
         {f.dir \o <<".">> \o SplitOnce(f.name, StrDotTable)[1] : f \in EligibleFiles}
    /\ \A f \in EligibleFiles :
         table_queries[f.dir \o <<".">> \o SplitOnce(f.name, StrDotTable)[1]]
           = StrSelect \o SplitOnce(f.name, StrDotTable)[1] \o <<";">>

(***************************************************************************)
(* Properties of interpret_args and disambiguate_revision                  *)
(***************************************************************************)
\* stderr holds an `error: ...` line whose message names the object kind
ErrorNames(kind) ==
  \E i \in 1..Len(stderr) :
     /\ stderr[i][1] = "error:"
     /\ \E j \in 1..Len(stderr[i][2]) : stderr[i][2][j] = kind /\ j > 1

TreatedAsFile ==
  /\ pc = "compute_diff" /\ exit_status = NoExit
  /\ commit = opts.commit /\ files = args

TreatedAsCommit ==
  /\ pc = "compute_diff" /\ exit_status = NoExit
  /\ commit = args[1] /\ files = Tail(args)

FatalNaming(kind) ==
  /\ pc = "done" /\ exit_status = 2
  /\ ErrorNames(kind)

Disambiguated ==
  pc \notin {"idle", "load_git_config", "interpret_args"} /\ dash_dash = <<>> /\ args # <<>>

\* C1 as stated: without `--`, a first positional of kind blob is taken as a
\* file, one of kind commit or tag as the commit, and one of kind tree is
\* fatal with status 2 and a message naming the kind.
RevisionDisambiguationAsClaimed ==
  Disambiguated =>
    /\ GetObjectType(args[1]) = "blob" => TreatedAsFile
    /\ GetObjectType(args[1]) \in {"commit", "tag"} => TreatedAsCommit
    /\ GetObjectType(args[1]) = "tree" => FatalNaming("tree")

\* C1 amended: without `--`, a first positional that is no git object but
\* that rev-parse accepts (a path) is taken as a file; one of kind commit or
\* tag is the commit and the rest are the files; one of any other object kind
\* (tree, and blob too) is fatal with status 2 and a message naming the kind.
RevisionDisambiguation ==
  Disambiguated =>
    /\ args[1] = "path" => TreatedAsFile
    /\ GetObjectType(args[1]) \in {"commit", "tag"} => TreatedAsCommit
    /\ GetObjectType(args[1]) \in {"tree", "blob"} => FatalNaming(GetObjectType(args[1]))

\* a blob token was interpreted
RevisionDisambiguationWitness ==
  /\ Disambiguated
  /\ args[1] = "blob" /\ Len(args) = 2
  /\ FatalNaming("blob")

(***************************************************************************)
(* Properties of a run                                                     *)
(***************************************************************************)
Untouched == workdir = [f \in RepoFiles |-> Original(f)] /\ written = {}

TreesBuilt == old_tree # NoTree /\ new_tree # NoTree

Printed(message) == \E i \in 1..Len(stdout) : stdout[i] = message

ErrorLines == {i \in 1..Len(stderr) : stderr[i][1] = "error:"}

\* the fatal conditions by the way the code ends the process
DieConditions ==
  {"invalid_revision", "update_index", "hash_object", "formatter", "missing_formatter"}
ExitTwoConditions ==
  {"ambiguous_revision", "git_config", "diff", "toplevel", "git_dir", "read_tree",
   "write_tree", "diff_tree", "diff_files", "checkout", "unstaged"}
UncaughtConditions == {"print_diff", "patch_checkout", "formatter_launch"}

UnstagedConflict ==
  /\ TreesBuilt /\ old_tree # new_tree
  /\ ~opts.diff
  /\ DiffTree(old_tree, new_tree) \cap unstaged # {}

\* no git command and no formatter failed in the run
NoCommandFailed == fatal \in {"none", "unstaged"}

PreviewNeverMutates ==
  (opts.diff /\ TreesBuilt /\ old_tree # new_tree) =>
    /\ Untouched
    /\ "apply_changes" \notin called
    /\ pc \in {"leave", "compare", "print_diff", "done"}
    /\ (pc = "done" => called = {"print_diff"})

PreviewWitness ==
  /\ pc = "done" /\ opts.diff /\ opts.force /\ opts.patch
  /\ TreesBuilt /\ old_tree # new_tree
  /\ exit_status = 0 /\ Printed("diff")

\* C6: outside a `with temporary_index_file` block GIT_INDEX_FILE has the
\* value the process started with (unset if it was unset) and the temporary
\* index file does not exist, however the block was left; inside it the
\* override points at the temporary file and the previous value is kept.
TemporaryIndexScoped ==
  IF pc \in {"body", "leave"}
    THEN /\ git_index_file = TempIndexPath
         /\ old_index_path = initial_index_file
         /\ temp_index # NoFile
    ELSE /\ git_index_file = initial_index_file
         /\ temp_index = NoFile

\* a block was left by an exception of a failing subprocess, and the user's
\* own value is back
TemporaryIndexWitness ==
  /\ pc = "done" /\ fatal = "patch_checkout" /\ exit_status = 1
  /\ initial_index_file = UserIndex /\ git_index_file = UserIndex

\* C9 as stated: with equal tree ids nothing is written, neither print_diff
\* nor apply_changes runs, the message is printed and the status is 0.
IdenticalTreesReported ==
  (pc = "done" /\ TreesBuilt /\ old_tree = new_tree) =>
    /\ Untouched /\ called = {}
    /\ Printed("clang-format did not modify any files")
    /\ exit_status = 0

\* C9 amended: with equal tree ids nothing is written, neither print_diff
\* nor apply_changes runs and the status is 0; the message is printed when
\* the verbosity is at least 0 and not printed under -q.
IdenticalTreesNoOp ==
  (TreesBuilt /\ old_tree = new_tree) =>
    /\ Untouched /\ called = {}
    /\ pc \in {"leave", "compare", "done"}
    /\ pc = "done" =>
         /\ exit_status = 0 /\ fatal = "none"
         /\ Printed("clang-format did not modify any files") <=> opts.verbose >= 0

IdenticalTreesWitness ==
  /\ pc = "done" /\ TreesBuilt /\ old_tree = new_tree
  /\ ~opts.diff /\ unstaged # {}
  /\ Printed("clang-format did not modify any files")

(***************************************************************************)
(* Properties of the formatter invocation                                  *)
(***************************************************************************)
\* the arguments of a command line that begin with `flag`
ArgumentsOf(cmd, flag) == SelectSeq(cmd, LAMBDA a : a[1] = flag)

\* how many clang-format processes the run started on file f
TimesFormatted(f) ==
  Cardinality({i \in 1..Len(invocations) : invocations[i][2] = f})

\* a style was configured: --style or clangformat.style holds a style name
\* (an empty value names no style)
StyleConfigured == opts.style # None /\ opts.style # ""

\* the command line is the binary, the file, and nothing but -lines and
\* -style arguments; the -lines arguments are the recorded ranges of the
\* file, one for one and in their order, each start:start+count-1
OneArgumentPerRange(cmd) ==
  LET ranges == changed_lines[cmd[2]]
      ls == ArgumentsOf(cmd, "-lines=")
      st == ArgumentsOf(cmd, "-style=")
  IN  /\ cmd[1] = <<Binary>>
      /\ Len(cmd) = 2 + Len(ls) + Len(st)
      /\ Len(ls) = Len(ranges)
      /\ \A k \in 1..Len(ls) :
           /\ ls[k][2] = ranges[k].start
           /\ ls[k][4] = ranges[k].start + ranges[k].count - 1
           /\ ls[k][2] <= ls[k][4]
      /\ Len(st) = IF StyleConfigured THEN 1 ELSE 0
      /\ \A k \in 1..Len(st) : st[k][2] = opts.style

\* C11: the formatter is started only on files of the filtered changed-files
\* map and at most once on each; once the new tree is built it was started
\* exactly once on each of them; every command line carries the file, one
\* -lines=<start>:<end> argument per recorded range of the file with
\* end = start + count - 1 and start <= end, and a -style=<style> argument
\* exactly when a style was configured.
FormatterInvocation ==
  /\ \A i \in 1..Len(invocations) :
       /\ invocations[i][2] \in DOMAIN changed_lines
       /\ OneArgumentPerRange(invocations[i])
  /\ \A f \in RepoFiles : TimesFormatted(f) <= 1
  /\ new_tree # NoTree => \A f \in DOMAIN changed_lines : TimesFormatted(f) = 1

\* the new tree was built after a styled run on a file with two ranges
FormatterInvocationWitness ==
  /\ new_tree # NoTree
  /\ StyleConfigured
  /\ \E i \in 1..Len(invocations) :
       /\ Len(ArgumentsOf(invocations[i], "-lines=")) = 2
       /\ Len(ArgumentsOf(invocations[i], "-style=")) = 1

\* the new tree was built from two files, with an empty style value
FormatterInvocationTwoFilesWitness ==
  /\ new_tree # NoTree
  /\ opts.style = ""
  /\ Len(invocations) = 2

(***************************************************************************)
(* Properties of the write set                                             *)
(***************************************************************************)
\* the keys of the changed-files map after extension filtering, read off the
\* diff: the files it records a range for, whose last dot-separated segment
\* is an allowed extension
FilteredKeys ==
  {f \in DOMAIN ExtractLines(diff_stdout) : HasAllowedLastSegment(f, RunExtensions)}

\* the statements of main() up to the test of the filtered map
BeforeTrees == {"idle", "load_git_config", "interpret_args", "compute_diff", "filter"}

\* C12: in every state of every run, whatever the flags, the working-tree
\* files written are keys of the filtered changed-files map, every other file
\* holds its original content, the old tree, the new tree and the temporary
\* index of a checkout hold exactly those paths, and when the filtered map is
\* empty the run stops before a tree is built, the formatter started or a
\* file written.
WriteSetConfinement ==
  /\ written \subseteq FilteredKeys
  /\ \A f \in RepoFiles \ FilteredKeys : workdir[f] = Original(f)
  /\ old_tree # NoTree => DOMAIN old_tree = FilteredKeys
  /\ new_tree # NoTree => DOMAIN new_tree = FilteredKeys
  /\ (site \in {"apply_patch", "apply_checkout"} /\ temp_index # NoFile)
       => DOMAIN temp_index = FilteredKeys
  /\ FilteredKeys = {} =>
       /\ pc \in BeforeTrees \cup {"done"}
       /\ old_tree = NoTree /\ new_tree = NoTree /\ temp_index = NoFile
       /\ invocations = <<>> /\ written = {}

\* a run wrote a file of the map while the diff named another file that the
\* extension filter removed, and a third file was not in the diff at all
WriteSetWitness ==
  /\ pc = "done" /\ written # {}
  /\ DOMAIN ExtractLines(diff_stdout) \ FilteredKeys # {}
  /\ RepoFiles \ DOMAIN ExtractLines(diff_stdout) # {}

\* a run whose diff named only files the filter removed ended with status 0
WriteSetEmptyMapWitness ==
  /\ pc = "done" /\ exit_status = 0
  /\ diff_stdout # <<>> /\ FilteredKeys = {}
  /\ Printed("no modified files to format")

=============================================================================
